---- MODULE Spec2Model ----
(***************************************************************************)
(* A model of raymond-rs (src/src/lib.rs): a ray caster that renders a     *)
(* fixed scene of spheres and point lights into an RGBA8 buffer, with a    *)
(* camera moved by six unit-step commands.                                 *)
(*                                                                         *)
(* Numbers.  The program computes in f64.  The model computes in fixed     *)
(* point: a real v is the integer v * Scale, and every operation rounds    *)
(* its result to the nearest multiple of 1/Scale where f64 rounds to the   *)
(* nearest double.  On small integers, halves and unit axis vectors both   *)
(* are exact and agree; elsewhere the model is coarser than the program.   *)
(* The input sets of the function-level specification are chosen inside    *)
(* the exact part.  A comparison with 1e-10 is, on multiples of 1/Scale,   *)
(* the comparison with one unit (GeEpsilon).                               *)
(*                                                                         *)
(* Local values.  A `let x = e` of the program is written                  *)
(* The({ body : x \in {e} }): TLC then evaluates e once, where a LET is    *)
(* evaluated again at every use of x.                                      *)
(***************************************************************************)
EXTENDS Integers, Sequences, FiniteSets, TLC

\* ------------------------------------------------------------- numbers

\* Resolution of the fixed-point image of f64: 1.0 is Scale.
Scale == 100

\* f64::INFINITY: larger than every value the model computes.
INFINITY == 2147483647

\* f64::consts::PI at the model's resolution.
PI == 314

\* u8::MAX
U8MAX == 255

\* The recursion cap of Scene::light.
DepthCap == 100

\* The element of a singleton set.
The(S) == CHOOSE x \in S : TRUE

Abs(n) == IF n < 0 THEN -n ELSE n

\* n / d rounded to the nearest integer, halves away from zero (d # 0).
RoundDiv(n, d) ==
    LET sn == IF d < 0 THEN -n ELSE n
        sd == Abs(d)
    IN  IF sn >= 0 THEN (2 * sn + sd) \div (2 * sd)
                   ELSE -((2 * (-sn) + sd) \div (2 * sd))

F(n) == n * Scale

FMul(a, b) == RoundDiv(a * b, Scale)

FDiv(a, b) == RoundDiv(a * Scale, b)

\* The largest root below 2^31: 46340 * 46340 < 2^31.
SqrtDigit(n, r0, step) ==
    The({ r + step * (CHOOSE d \in 0..15 :
                        /\ r + d * step <= 46340
                        /\ (r + d * step) * (r + d * step) <= n
                        /\ \/ d = 15
                           \/ r + (d + 1) * step > 46340
                           \/ (r + (d + 1) * step) * (r + (d + 1) * step) > n) :
          r \in { r0 } })

\* The largest r with r * r <= n (0 <= n), one hexadecimal digit at a time.
ISqrt(n) == SqrtDigit(n, SqrtDigit(n, SqrtDigit(n, SqrtDigit(n, 0, 4096), 256), 16), 1)

\* f64::sqrt of a >= 0, rounded to the nearest unit.
FSqrt(a) ==
    The({ IF a * Scale - r * r > r THEN r + 1 ELSE r : r \in { ISqrt(a * Scale) } })

\* Square::sqr for f64: self.powi(2)
Sqr(a) == FMul(a, a)

FMin(a, b) == IF a < b THEN a ELSE b

\* t >= 1e-10 for t a multiple of 1/Scale.
GeEpsilon(t) == t >= 1

\* ---------------------------------------------------------------- Vec3

Vec3(x, y, z) == [x |-> x, y |-> y, z |-> z]

Length(v) == FSqrt(Sqr(v.x) + Sqr(v.y) + Sqr(v.z))

Unit(v) ==
    The({ Vec3(FMul(v.x, inv), FMul(v.y, inv), FMul(v.z, inv)) :
          inv \in { FDiv(F(1), Length(v)) } })

Add(a, b) == Vec3(a.x + b.x, a.y + b.y, a.z + b.z)

Subtract(a, b) == Vec3(a.x - b.x, a.y - b.y, a.z - b.z)

VScale(v, f) == Vec3(FMul(v.x, f), FMul(v.y, f), FMul(v.z, f))

Dot(a, b) == FMul(a.x, b.x) + FMul(a.y, b.y) + FMul(a.z, b.z)

\* ----------------------------------------------------------------- RGB

RGB(r, g, b) == [red |-> r, green |-> g, blue |-> b]

Black == RGB(0, 0, 0)

RGBAdd(a, b) == RGB(a.red + b.red, a.green + b.green, a.blue + b.blue)

Shade(c, f) ==
    IF f <= 0 THEN Black
    ELSE IF f >= F(1) THEN c
    ELSE RGB(FMul(c.red, f), FMul(c.green, f), FMul(c.blue, f))

\* f64::round: to the nearest integer, halves away from zero.
Round(a) == RoundDiv(a, Scale)

\* AsU8 as a cast that wraps modulo 256, as an integer `as u8` does.
AsU8Wrapping(n) == n % 256

\* `as u8` on an f64: the saturating cast of the Rust reference.
AsU8(n) == IF n < 0 THEN 0 ELSE IF n > U8MAX THEN U8MAX ELSE n

WriteChannel(c) == AsU8(Round(FMul(F(U8MAX), FMin(c, F(1)))))

\* RGB::write: the four bytes written to pixels[0..4].
Write(c) ==
    << WriteChannel(c.red), WriteChannel(c.green), WriteChannel(c.blue), U8MAX >>

\* ----------------------------------------------------------------- Ray

Ray(origin, direction) == [origin |-> origin, direction |-> direction]

\* RayCast with the subtraction the other way round.
RayCastReversed(from, to) == Ray(from, Subtract(from, to))

RayCast(from, to) == Ray(from, Subtract(to, from))

RayLength(r) == Length(r.direction)

RayUnit(r) == Ray(r.origin, Unit(r.direction))

PointAt(r, t) == Add(r.origin, VScale(r.direction, t))

Reflect(r, point, normal) ==
    The({ Ray(point, Subtract(r.direction, VScale(normal, FMul(F(2), cosine)))) :
          cosine \in { Dot(r.direction, normal) } })

\* -------------------------------------------------------------- Sphere

Sphere(center, radius, color, glossiness) ==
    [center |-> center, radius |-> radius, color |-> color,
     glossiness |-> glossiness]

None == [some |-> FALSE, t |-> 0]

Some(t) == [some |-> TRUE, t |-> t]

\* dot and sqrt_term of Sphere::intersect, oc being ray.origin - self.center.
IntersectDot(r, oc) ==
    The({ Dot(u, oc) : u \in { Unit(r.direction) } })

SqrtTerm(s, oc, dot) == Sqr(dot) - (Sqr(Length(oc)) - Sqr(s.radius))

\* vec![-dot - sqrt, -dot + sqrt]
Roots(dot, sqrt) == << (-dot) - sqrt, (-dot) + sqrt >>

\* FindRoot with the test t >= 0. in place of t >= 1e-10.
FindRootNonNegative(ts) ==
    IF \E i \in 1..Len(ts) : ts[i] >= 0
    THEN LET i == CHOOSE i \in 1..Len(ts) :
                      /\ ts[i] >= 0
                      /\ \A j \in 1..(i - 1) : ~(ts[j] >= 0)
         IN  Some(ts[i])
    ELSE None

\* .iter().cloned().find(|&t| t >= 1e-10)
FindRoot(ts) ==
    IF \E i \in 1..Len(ts) : GeEpsilon(ts[i])
    THEN LET i == CHOOSE i \in 1..Len(ts) :
                      /\ GeEpsilon(ts[i])
                      /\ \A j \in 1..(i - 1) : ~GeEpsilon(ts[j])
         IN  Some(ts[i])
    ELSE None

\* The rest of Sphere::intersect, dot and sqrt_term being computed.
IntersectRoots(dot, sqrt_term) ==
    IF sqrt_term < 0 THEN None
    ELSE The({ FindRoot(ts) : ts \in { Roots(dot, FSqrt(sqrt_term)) } })

Intersect(s, r) ==
    The({ The({ The({ IntersectRoots(dot, sqrt_term) :
                      sqrt_term \in { SqrtTerm(s, oc, dot) } }) :
                dot \in { IntersectDot(r, oc) } }) :
          oc \in { Subtract(r.origin, s.center) } })

SurfaceNormal(s, point) == Subtract(point, s.center)

\* --------------------------------------------------------------- Light

Light(pos, power) == [pos |-> pos, power |-> power]

\* Occluded without the test t < len: any sphere on the ray occludes.
OccludedByAnyHit(sph, unit_ray, len) ==
    \E i \in 1..Len(sph) :
        \E hit \in { Intersect(sph[i], unit_ray) } : hit.some

\* The loop of Light::illuminate: some sphere's intersection lies before the light.
Occluded(sph, unit_ray, len) ==
    \E i \in 1..Len(sph) :
        \E hit \in { Intersect(sph[i], unit_ray) } : hit.some /\ hit.t < len

\* The last two lines of Light::illuminate.
Lambert(power, surface_normal, unit_ray, len) ==
    The({ FDiv(FMul(power, cosine), FMul(FMul(F(4), PI), Sqr(len))) :
          cosine \in { FDiv(Dot(surface_normal, unit_ray.direction),
                            Length(surface_normal)) } })

Illuminate(l, sph, point, surface_normal) ==
    The({ The({ The({ IF Occluded(sph, unit_ray, len) THEN 0
                      ELSE Lambert(l.power, surface_normal, unit_ray, len) :
                      unit_ray \in { RayUnit(ray) } }) :
                len \in { RayLength(ray) } }) :
          ray \in { RayCast(point, l.pos) } })

\* ------------------------------------------------------- Film, Camera

Film(origin, width, height) ==
    [origin |-> origin, width |-> width, height |-> height]

Project(film, x, y) ==
    Vec3(film.origin.x + FMul(film.width, x),
         (film.origin.y + film.height) - FMul(film.height, y),
         film.origin.z)

Camera(eye, film) == [eye |-> eye, film |-> film]

CameraCast(cam, x, y) ==
    The({ Ray(cam.eye, Unit(d)) :
          d \in { Subtract(Project(cam.film, x, y), cam.eye) } })

Moves == {"Left", "Right", "Up", "Down", "Forward", "Back"}

\* MoveOne with the Down arm copied from the Up arm, += left in place.
MoveOneDownAdds(cam, mov) ==
    CASE mov = "Left"    -> [cam EXCEPT !.eye.x = @ - F(1), !.film.origin.x = @ - F(1)]
      [] mov = "Right"   -> [cam EXCEPT !.eye.x = @ + F(1), !.film.origin.x = @ + F(1)]
      [] mov = "Up"      -> [cam EXCEPT !.eye.y = @ + F(1), !.film.origin.y = @ + F(1)]
      [] mov = "Down"    -> [cam EXCEPT !.eye.y = @ + F(1), !.film.origin.y = @ + F(1)]
      [] mov = "Forward" -> [cam EXCEPT !.eye.z = @ + F(1), !.film.origin.z = @ + F(1)]
      [] mov = "Back"    -> [cam EXCEPT !.eye.z = @ - F(1), !.film.origin.z = @ - F(1)]

\* MoveOne with the Back arm moving the eye and leaving the film behind.
MoveOneBackEyeOnly(cam, mov) ==
    CASE mov = "Left"    -> [cam EXCEPT !.eye.x = @ - F(1), !.film.origin.x = @ - F(1)]
      [] mov = "Right"   -> [cam EXCEPT !.eye.x = @ + F(1), !.film.origin.x = @ + F(1)]
      [] mov = "Up"      -> [cam EXCEPT !.eye.y = @ + F(1), !.film.origin.y = @ + F(1)]
      [] mov = "Down"    -> [cam EXCEPT !.eye.y = @ - F(1), !.film.origin.y = @ - F(1)]
      [] mov = "Forward" -> [cam EXCEPT !.eye.z = @ + F(1), !.film.origin.z = @ + F(1)]
      [] mov = "Back"    -> [cam EXCEPT !.eye.z = @ - F(1)]

\* Camera::move_one: the six arms of the match.
MoveOne(cam, mov) ==
    CASE mov = "Left"    -> [cam EXCEPT !.eye.x = @ - F(1), !.film.origin.x = @ - F(1)]
      [] mov = "Right"   -> [cam EXCEPT !.eye.x = @ + F(1), !.film.origin.x = @ + F(1)]
      [] mov = "Up"      -> [cam EXCEPT !.eye.y = @ + F(1), !.film.origin.y = @ + F(1)]
      [] mov = "Down"    -> [cam EXCEPT !.eye.y = @ - F(1), !.film.origin.y = @ - F(1)]
      [] mov = "Forward" -> [cam EXCEPT !.eye.z = @ + F(1), !.film.origin.z = @ + F(1)]
      [] mov = "Back"    -> [cam EXCEPT !.eye.z = @ - F(1), !.film.origin.z = @ - F(1)]

\* --------------------------------------------------------------- Scene

\* Scene::new
NewCamera == Camera(Vec3(F(0), F(0), -F(6)),
                    Film(Vec3(-F(4), -F(3), F(0)), F(8), 450))

NewSpheres ==
    << Sphere(Vec3(-F(1), F(4), F(15)),  F(2), RGB(F(1), 0, 0), F(1)),
       Sphere(Vec3(F(2), F(2), F(20)),   F(5), RGB(0, F(1), 0), F(1)),
       Sphere(Vec3(F(10), -F(1), F(25)), F(3), RGB(50, 0, 50), 70),
       Sphere(Vec3(F(12), F(4), F(24)),  F(2), RGB(F(1), F(1), 0), 50),
       Sphere(Vec3(-F(5), -F(2), F(12)), F(3), RGB(0, 0, F(1)), 70),
       Sphere(Vec3(-F(1), -F(1), F(11)), F(1), RGB(F(1), 50, 70), 20),
       Sphere(Vec3(-F(11), F(6), F(12)), F(4), RGB(F(1), F(1), F(1)), F(1)),
       Sphere(Vec3(F(6), -F(9), F(12)),  F(5), RGB(0, 0, 0), F(1)) >>

NewLights ==
    << Light(Vec3(-F(3), F(12), -F(2)), F(3700)),
       Light(Vec3(F(12), F(12), F(22)), F(1250)),
       Light(Vec3(-F(5), F(8), F(30)),  F(2500)) >>

\* NearestFold with t <= min.1 in place of t < min.1.
RECURSIVE NearestFoldLastWins(_, _, _, _)
NearestFoldLastWins(sph, ray, i, min) ==
    IF i > Len(sph) THEN min
    ELSE The({ NearestFoldLastWins(sph, ray, i + 1, next) :
               next \in { The({ IF hit.some /\ hit.t <= min.t
                                THEN [idx |-> i, t |-> hit.t]
                                ELSE min :
                                hit \in { Intersect(sph[i], ray) } }) } })

\* The fold of Scene::light: the accumulator after sph i..Len(sph).
\* min.idx = 0 stands for (None, _).
RECURSIVE NearestFold(_, _, _, _)
NearestFold(sph, ray, i, min) ==
    IF i > Len(sph) THEN min
    ELSE The({ NearestFold(sph, ray, i + 1, next) :
               next \in { The({ IF hit.some /\ hit.t < min.t
                                THEN [idx |-> i, t |-> hit.t]
                                ELSE min :
                                hit \in { Intersect(sph[i], ray) } }) } })

Nearest(sph, ray) ==
    NearestFold(sph, ray, 1, [idx |-> 0, t |-> INFINITY])

\* .map(|light| light.illuminate(...)).sum()
RECURSIVE RadianceFrom(_, _, _, _, _)
RadianceFrom(lts, sph, point, normal, i) ==
    IF i > Len(lts) THEN 0
    ELSE Illuminate(lts[i], sph, point, normal)
         + RadianceFrom(lts, sph, point, normal, i + 1)

Radiance(lts, sph, point, normal) == RadianceFrom(lts, sph, point, normal, 1)

\* The (None, _) arm of Scene::light.
Background(ray) ==
    The({ IF x < y THEN RGB(y, y, y) ELSE RGB(x, y, x) :
          x \in { FDiv(ray.direction.x, F(2)) },
          y \in { 70 - Abs(ray.direction.y) } })

\* Recurses without the depth test.
RecursesUncapped(sphere, depth) == sphere.glossiness > 0

\* sphere.glossiness > 0. && depth < 100
Recurses(sphere, depth) == sphere.glossiness > 0 /\ depth < DepthCap

\* depth + 1 on a u8
NextDepth(depth) == (depth + 1) % 256

\* let reflection = ray.reflect(&point, &normal.unit())
Reflection(ray, point, normal) ==
    The({ Reflect(ray, point, unit) : unit \in { Unit(normal) } })

\* What Scene::light computes before it may recurse: the nearest sphere and,
\* in the (Some(sphere), t) arm, point, normal and radiance.  idx = 0 is the
\* (None, _) arm.
Miss == [idx |-> 0]

HitAt(sph, lts, idx, point) ==
    The({ [idx |-> idx, sphere |-> sph[idx], point |-> point, normal |-> normal,
           radiance |-> Radiance(lts, sph, point, normal)] :
          normal \in { SurfaceNormal(sph[idx], point) } })

Trace(sph, lts, ray) ==
    The({ IF nearest.idx = 0 THEN Miss
          ELSE The({ HitAt(sph, lts, nearest.idx, point) :
                     point \in { PointAt(ray, nearest.t) } }) :
          nearest \in { Nearest(sph, ray) } })

\* The value of a call that does not recurse: the background, or the sphere's
\* colour shaded by the radiance.
Unreflected(ray, h) ==
    IF h.idx = 0 THEN Background(ray) ELSE Shade(h.sphere.color, h.radiance)

\* The value of a call that recursed, reflected being the value of the nested
\* call: color = color.add(&reflection_color); color.shade(radiance).
Reflected(h, reflected) ==
    Shade(RGBAdd(h.sphere.color, Shade(reflected, h.sphere.glossiness)),
          h.radiance)

\* Whether the call recurses.
Descends(h, depth) == h.idx # 0 /\ Recurses(h.sphere, depth)

\* --------------------------------------------------------------- Image

\* n << 2 on a usize: the target is wasm32, where usize has 32 bits; the two
\* bits shifted out are lost, in debug builds as in release builds.
Shl2(n) == (n % (2 ^ 30)) * 4

\* Image::new: a zeroed buffer of (width * height) << 2 bytes.
NewPixels(width, height) == [i \in 1..Shl2(width * height) |-> 0]

\* idx of Image::draw
DrawIdx(width, x, y) == Shl2(x + y * width)

\* Draw that keeps the larger of the old and the new byte.
DrawBlend(pixels, width, x, y, color) ==
    The({ [i \in 1..Len(pixels) |->
              IF i > idx /\ i <= idx + 4 /\ b[i - idx] > pixels[i]
              THEN b[i - idx] ELSE pixels[i]] :
          idx \in { DrawIdx(width, x, y) }, b \in { Write(color) } })

\* Image::draw: pixels[idx..idx + 4] overwritten by RGB::write (1-based here).
Draw(pixels, width, x, y, color) ==
    The({ [i \in 1..Len(pixels) |->
              IF i > idx /\ i <= idx + 4 THEN b[i - idx] ELSE pixels[i]] :
          idx \in { DrawIdx(width, x, y) }, b \in { Write(color) } })

\* ================================================================ state

VARIABLES
    camera,     \* Scene.camera
    spheres,    \* Scene.spheres
    lights,     \* Scene.lights
    images,     \* the host's Image objects: [width, height, pixels]
    render,     \* Scene::render in progress: its image and loop position
    panicked,   \* a slice index of Image::draw was out of range
    startCam,   \* history: the camera when the running render was entered
    shot,       \* history: per image, the camera of its last complete render and
                \* whether it overwrote a render made from another camera
    writes,     \* history: the draws of the running or last render, in order
    trail,      \* history: the last two movement commands
    stack,      \* the activation records of Scene::light
    ret,        \* the value the last returning call of Scene::light gave
    call        \* the last function applied, its arguments and its result

vars == << camera, spheres, lights, images, render, panicked, startCam, shot,
           writes, trail, stack, ret, call >>

\* -------------------------------------------------------------- bounds

\* How many unit steps to the right of Scene::new's camera images are
\* rendered from (Near).
MaxDist == 1

\* The camera stays within MoveRange unit steps per axis in SpecCamera.
MoveRange == 2

\* The resolution of the two images.
ImgWidth == 2

ImgHeight == 1

\* The longest sphere list of the function-level inputs.
MaxSpheres == 2

ImageIds == {1, 2}

NoShot == [taken |-> FALSE]

NoRet == [given |-> FALSE]

NoCall == [fn |-> "none"]

Idle == [img |-> 0, x |-> 0, y |-> 0, stale |-> FALSE]

Offset(cam) == Subtract(cam.eye, NewCamera.eye)

Near(cam) ==
    \E o \in { Offset(cam) } :
        o.y = 0 /\ o.z = 0 /\ o.x >= 0 /\ o.x <= F(MaxDist)

InBox(cam) ==
    /\ Abs(Offset(cam).x) <= F(MoveRange)
    /\ Abs(Offset(cam).y) <= F(MoveRange)
    /\ Abs(Offset(cam).z) <= F(MoveRange)

\* Image::new
NewImage(width, height) ==
    [width |-> width, height |-> height, pixels |-> NewPixels(width, height)]

\* The resolutions the host builds its images with: a small one, and
\* 2^15 x 2^15, whose byte count no longer fits a usize.
ImageSizes == { << ImgWidth, ImgHeight >>, << 2 ^ 15, 2 ^ 15 >> }

\* The sequences over S of length at most n.
SeqsUpTo(S, n) == UNION { [1..k -> S] : k \in 0..n }

Axis(z) == Vec3(0, 0, F(z))

\* ---------------------------------------------------------- Scene::light

Top == stack[Len(stack)]

Pop == SubSeq(stack, 1, Len(stack) - 1)

\* What a call hands back, with its own arguments, the sphere it chose
\* (0: none) and whether it recursed.
Returned(color, frame, h, recursed) ==
    [given |-> TRUE, color |-> color, ray |-> frame.ray, depth |-> frame.depth,
     chosen |-> h.idx, recursed |-> recursed]

\* The running call reaches self.light(&reflection, depth + 1).
LightDescend ==
    /\ stack # << >>
    /\ ~ret.given
    /\ \E h \in { Trace(spheres, lights, Top.ray) } :
          /\ Descends(h, Top.depth)
          /\ stack' = Append(stack,
                             [ray   |-> Reflection(Top.ray, h.point, h.normal),
                              depth |-> NextDepth(Top.depth)])
    /\ UNCHANGED << camera, spheres, lights, images, render, panicked, startCam,
                    shot, writes, trail, ret, call >>

\* The running call returns without having recursed.
LightReturn ==
    /\ stack # << >>
    /\ ~ret.given
    /\ \E h \in { Trace(spheres, lights, Top.ray) } :
          /\ ~Descends(h, Top.depth)
          /\ ret' = Returned(Unreflected(Top.ray, h), Top, h, FALSE)
    /\ stack' = Pop
    /\ UNCHANGED << camera, spheres, lights, images, render, panicked, startCam,
                    shot, writes, trail, call >>

\* The nested call has returned: the caller adds the reflection and returns.
LightResume ==
    /\ stack # << >>
    /\ ret.given
    /\ \E h \in { Trace(spheres, lights, Top.ray) } :
          ret' = Returned(Reflected(h, ret.color), Top, h, TRUE)
    /\ stack' = Pop
    /\ UNCHANGED << camera, spheres, lights, images, render, panicked, startCam,
                    shot, writes, trail, call >>

\* ------------------------------------------------ Scene: render, moves

Init ==
    /\ camera = NewCamera
    /\ spheres = NewSpheres
    /\ lights = NewLights
    /\ \E size \in ImageSizes :
          images = [i \in ImageIds |-> NewImage(size[1], size[2])]
    /\ render = Idle
    /\ panicked = FALSE
    /\ startCam = NewCamera
    /\ shot = [i \in ImageIds |-> NoShot]
    /\ writes = << >>
    /\ trail = << >>
    /\ stack = << >>
    /\ ret = NoRet
    /\ call = NoCall

\* One of moveLeft .. moveBack: camera.move_one(mov).
MoveCamera(mov) ==
    /\ render = Idle
    /\ ~panicked
    /\ camera' = MoveOne(camera, mov)
    /\ UNCHANGED << spheres, lights, images, render, panicked, startCam, shot,
                    writes, stack, ret, call >>

Move(mov) ==
    /\ MoveCamera(mov)
    /\ Near(camera')
    /\ UNCHANGED trail

\* Scene::render is entered with image i: the loops start at y = 0, x = 0.
RenderEnter(i) ==
    /\ render = Idle
    /\ ~panicked
    /\ render' = [img |-> i, x |-> 0, y |-> 0,
                  stale |-> shot[i].taken /\ shot[i].cam # camera]
    /\ startCam' = camera
    /\ writes' = << >>
    /\ shot' = [shot EXCEPT ![i] = NoShot]
    /\ UNCHANGED << camera, spheres, lights, images, panicked, trail, stack,
                    ret, call >>

\* 1. / n as f64, n a usize
Inv(n) == FDiv(F(1), F(n))

\* An iteration of the inner loop begins: the ray of pixel (x, y) is cast and
\* self.light(&ray, 1) is called.
RenderCast ==
    /\ render.img # 0
    /\ ~panicked
    /\ stack = << >>
    /\ ~ret.given
    /\ \E img \in { images[render.img] } :
          /\ render.y < img.height
          /\ render.x < img.width
          /\ stack' = << [ray   |-> CameraCast(camera,
                                               FMul(F(render.x), Inv(img.width)),
                                               FMul(F(render.y), Inv(img.height))),
                          depth |-> 1] >>
    /\ UNCHANGED << camera, spheres, lights, images, render, panicked, startCam,
                    shot, writes, trail, ret, call >>

\* self.light has returned color: img.draw(x, y, &color), and the loops advance.
RenderDraw ==
    /\ render.img # 0
    /\ ~panicked
    /\ stack = << >>
    /\ ret.given
    /\ \E img \in { images[render.img] }, x \in { render.x }, y \in { render.y } :
       \E idx \in { DrawIdx(img.width, x, y) } :
           IF idx + 4 <= Len(img.pixels)
           THEN /\ images' = [images EXCEPT ![render.img].pixels =
                                 Draw(img.pixels, img.width, x, y, ret.color)]
                /\ writes' = Append(writes, [x |-> x, y |-> y, idx |-> idx])
                /\ render' = IF x + 1 < img.width
                             THEN [render EXCEPT !.x = x + 1]
                             ELSE [render EXCEPT !.x = 0, !.y = y + 1]
                /\ ret' = NoRet
                /\ UNCHANGED panicked
           ELSE /\ panicked' = TRUE
                /\ UNCHANGED << images, writes, render, ret >>
    /\ UNCHANGED << camera, spheres, lights, startCam, shot, trail, stack, call >>

\* The outer loop is exhausted: Scene::render returns.
RenderReturn ==
    /\ render.img # 0
    /\ ~panicked
    /\ stack = << >>
    /\ ~ret.given
    /\ render.y >= images[render.img].height
    /\ shot' = [shot EXCEPT ![render.img] =
                   [taken |-> TRUE, cam |-> startCam, stale |-> render.stale]]
    /\ render' = Idle
    /\ UNCHANGED << camera, spheres, lights, images, panicked, startCam, writes,
                    trail, stack, ret, call >>

Next ==
    \/ \E mov \in Moves : Move(mov)
    \/ \E i \in ImageIds : RenderEnter(i)
    \/ RenderCast
    \/ LightDescend
    \/ LightReturn
    \/ LightResume
    \/ RenderDraw
    \/ RenderReturn

Spec == Init /\ [][Next]_vars

\* ------------------------------------------- camera commands, recorded

\* A movement command that records itself: trail holds the last two commands,
\* each with the camera it found.
MoveRecorded(mov) ==
    /\ MoveCamera(mov)
    /\ InBox(camera')
    /\ \E e \in { [mov |-> mov, from |-> camera] } :
          trail' = IF Len(trail) < 2 THEN Append(trail, e) ELSE << trail[2], e >>

NextCamera == \E mov \in Moves : MoveRecorded(mov)

SpecCamera == Init /\ [][NextCamera]_vars

\* ----------------------------------------- Scene::light, scene by scene

\* Two spheres of radius 1 facing each other on the z axis, a light between,
\* and rays from the light's place towards either sphere and past both.
Facing(gloss1, gloss2, power) ==
    [spheres |-> << Sphere(Axis(0), F(1), RGB(F(1), 0, 0), gloss1),
                    Sphere(Axis(4), F(1), RGB(0, F(1), 50), gloss2) >>,
     lights  |-> << Light(Axis(2), power) >>,
     rays    |-> { Ray(Axis(2), Axis(1)), Ray(Axis(2), Axis(-1)),
                   Ray(Axis(2), Vec3(0, F(1), 0)) }]

\* Matte spheres: two hit at the same t, one nearer, one missed.
Targets ==
    { Sphere(Axis(5), F(1), RGB(F(1), 0, 0), 0),
      Sphere(Axis(5), F(1), RGB(0, F(1), 0), 0),
      Sphere(Axis(5), F(3), RGB(0, 0, F(1)), 0),
      Sphere(Axis(-5), F(1), RGB(F(1), F(1), F(1)), 0) }

\* The scenes Scene::light runs in: facing spheres, both fully glossy under a
\* weak light, one half glossy and one matte under a strong one; every list
\* of at most MaxSpheres targets; and Scene::new with the rays of a small image.
Worlds ==
    { Facing(F(1), F(1), F(5)), Facing(50, 0, F(100)) }
    \cup
    { [spheres |-> sph, lights |-> << Light(Axis(0), F(100)) >>,
       rays |-> { Ray(Axis(0), Axis(1)), Ray(Axis(0), Axis(-1)),
                  Ray(Axis(0), Vec3(F(1), 0, 0)) }] :
        sph \in SeqsUpTo(Targets, MaxSpheres) }
    \cup
    { [spheres |-> NewSpheres, lights |-> NewLights,
       rays |-> { CameraCast(NewCamera, FMul(F(x), Inv(ImgWidth)),
                                        FMul(F(y), Inv(ImgHeight))) :
                  x \in 0..(ImgWidth - 1), y \in 0..(ImgHeight - 1) }] }

\* self.light(&ray, 1) has been called.
InitLight ==
    /\ camera = NewCamera
    /\ images = [i \in ImageIds |-> NewImage(ImgWidth, ImgHeight)]
    /\ render = Idle
    /\ panicked = FALSE
    /\ startCam = NewCamera
    /\ shot = [i \in ImageIds |-> NoShot]
    /\ writes = << >>
    /\ trail = << >>
    /\ call = NoCall
    /\ ret = NoRet
    /\ \E w \in Worlds :
          /\ spheres = w.spheres
          /\ lights = w.lights
          /\ \E r \in w.rays : stack = << [ray |-> r, depth |-> 1] >>

NextLight == LightDescend \/ LightReturn \/ LightResume

\* The call runs on: nothing suspends it.
SpecLight == InitLight /\ [][NextLight]_vars /\ WF_vars(NextLight)

\* ------------------------------------------------ functions, one by one

\* Intersect: integer geometry in which every length and root is exact.
FnCentres == { Axis(5), Axis(-5), Axis(0), Vec3(F(3), 0, F(4)) }

FnRadii == { F(1), F(3), F(5) }

FnOrigins == { Axis(0), Axis(8) }

FnDirections == { Axis(1), Axis(2), Axis(-1), Vec3(F(1), 0, 0) }

Shape(center, radius) == Sphere(center, radius, Black, 0)

\* Illuminate: lights, points and normals on the z axis, and spheres between
\* them, beyond the light, touching the point and off the axis.
FnLightPositions == { Axis(0), Axis(2), Axis(5) }

FnPowers == { F(100), F(5) }

FnPoints == { Axis(1), Axis(4) }

FnNormals == { Axis(1), Axis(-1), Axis(2), Vec3(0, F(1), 0) }

FnOccluders ==
    { Shape(Axis(2), F(1)), Shape(Axis(-5), F(1)), Shape(Vec3(F(4), 0, F(1)), F(1)) }

\* Write: channels below 0, inside [0, 1] and above 1.
FnChannels == { -30, 0, 1, 50, 99, F(1), 101, 250 }

Others == << camera, spheres, lights, images, render, panicked, startCam, shot,
             writes, trail, stack, ret >>

CallIntersect(s, r) ==
    /\ call = NoCall
    /\ call' = [fn |-> "intersect", sphere |-> s, ray |-> r, res |-> Intersect(s, r)]
    /\ UNCHANGED Others

CallIlluminate(l, sph, point, normal) ==
    /\ call = NoCall
    /\ call' = [fn |-> "illuminate", light |-> l, spheres |-> sph, point |-> point,
                normal |-> normal, res |-> Illuminate(l, sph, point, normal)]
    /\ UNCHANGED Others

CallWrite(c) ==
    /\ call = NoCall
    /\ call' = [fn |-> "write", color |-> c, res |-> Write(c)]
    /\ UNCHANGED Others

NextFn ==
    \/ \E c \in FnCentres, rad \in FnRadii, o \in FnOrigins, d \in FnDirections :
          CallIntersect(Shape(c, rad), Ray(o, d))
    \/ \E pos \in FnLightPositions, pw \in FnPowers,
          sph \in SeqsUpTo(FnOccluders, MaxSpheres), pt \in FnPoints, n \in FnNormals :
          CallIlluminate(Light(pos, pw), sph, pt, n)
    \/ \E r \in FnChannels, g \in FnChannels, b \in FnChannels : CallWrite(RGB(r, g, b))

SpecFn == Init /\ [][NextFn]_vars

\* =============================================================== claims

Opposite(mov) ==
    CASE mov = "Left"    -> "Right"
      [] mov = "Right"   -> "Left"
      [] mov = "Up"      -> "Down"
      [] mov = "Down"    -> "Up"
      [] mov = "Forward" -> "Back"
      [] mov = "Back"    -> "Forward"

\* C1: a movement command followed by its opposite (right/left, up/down,
\* forward/back, in either order) leaves eye and film.origin exactly as they
\* were before the pair, from whatever camera the pair starts.
C1_OppositeMovesRestore ==
    (Len(trail) = 2 /\ trail[2].mov = Opposite(trail[1].mov)) =>
        /\ camera.eye = trail[1].from.eye
        /\ camera.film.origin = trail[1].from.film.origin

\* moveRight() then moveLeft(), from a camera that had already been moved.
C1_RightThenLeft ==
    /\ Len(trail) = 2
    /\ trail[1].mov = "Right"
    /\ trail[2].mov = "Left"
    /\ trail[1].from # NewCamera
    /\ camera = trail[1].from

UnitSteps ==
    { Vec3(F(1), 0, 0), Vec3(-F(1), 0, 0), Vec3(0, F(1), 0), Vec3(0, -F(1), 0),
      Vec3(0, 0, F(1)), Vec3(0, 0, -F(1)) }

\* C2: after any sequence of movement commands from Scene::new(),
\* film.origin - eye is (-4, -3, 6) and the film's width and height are those
\* of Scene::new(); and the last command changed exactly one coordinate of eye
\* by exactly 1 and the same coordinate of film.origin by the same amount.
C2_OffsetKept ==
    /\ Subtract(camera.film.origin, camera.eye) = Vec3(-F(4), -F(3), F(6))
    /\ camera.film.width = NewCamera.film.width
    /\ camera.film.height = NewCamera.film.height
    /\ trail # << >> =>
          LET from == trail[Len(trail)].from
          IN  /\ Subtract(camera.eye, from.eye) \in UnitSteps
              /\ Subtract(camera.film.origin, from.film.origin)
                    = Subtract(camera.eye, from.eye)

\* The camera has gone up, then back, and is away from where it started.
C2_UpThenBack ==
    /\ Len(trail) = 2
    /\ trail[1].mov = "Up"
    /\ trail[2].mov = "Back"
    /\ Subtract(camera.eye, NewCamera.eye) = Vec3(0, F(1), -F(1))

\* The outermost call of Scene::light has returned.
LightDone == stack = << >> /\ ret.given

LightDepthsInRange ==
    \A i \in 1..Len(stack) :
        /\ stack[i].depth = i
        /\ stack[i].depth >= 1
        /\ stack[i].depth <= DepthCap
        /\ stack[i].depth + 1 <= U8MAX

LightCapReturns ==
    (ret.given /\ ret.depth = DepthCap) =>
        /\ ~ret.recursed
        /\ ret.chosen # 0 =>
              ret.color = Shade(spheres[ret.chosen].color,
                                Trace(spheres, lights, ret.ray).radiance)

\* C3: in every scene Scene::light(ray, 1) terminates; the running calls have
\* depths 1, 2, 3, ... never beyond 100, so that depth + 1 fits a u8; a call
\* at depth 100 does not recurse and, having hit a sphere, returns that
\* sphere's colour shaded by the radiance at the hit point.
C3_LightTerminates ==
    /\ [](LightDepthsInRange /\ LightCapReturns)
    /\ <>LightDone

\* Between two facing glossy spheres the call at depth 100 has hit a sphere and
\* returned.
C3_CapReached ==
    /\ ret.given
    /\ ret.depth = DepthCap
    /\ ret.chosen # 0
    /\ spheres[ret.chosen].glossiness > 0
    /\ Len(stack) = DepthCap - 1

\* The draws of one render of a width x height image, in order.
RowMajor(width, height) ==
    \A k \in 1..Len(writes) :
        /\ k <= width * height
        /\ writes[k] = [x |-> (k - 1) % width, y |-> (k - 1) \div width,
                        idx |-> 4 * (k - 1)]

\* C4: a render of an image built by Image::new(width, height) draws the
\* pixels row by row, each once, pixel (x, y) at byte 4 * (x + y * width),
\* always inside the buffer; and when it has returned all width * height pixels
\* have been drawn, so that every byte of the width * height * 4 is overwritten,
\* with 255 in every fourth byte.
C4_EveryPixelWrittenOnce ==
    /\ ~panicked
    /\ \A i \in ImageIds : RowMajor(images[i].width, images[i].height)
    /\ \A i \in ImageIds :
          shot[i].taken =>
              /\ Len(images[i].pixels) = images[i].width * images[i].height * 4
              /\ \A k \in 1..(images[i].width * images[i].height) :
                    images[i].pixels[4 * k] = U8MAX
    /\ \A i \in ImageIds :
          (render.img = 0 /\ writes # << >>) =>
              Len(writes) = images[i].width * images[i].height

\* C5: two images of the same resolution, each completely rendered from the
\* same camera, spheres and lights, hold the same bytes, whatever they held
\* before; and render changes neither camera nor spheres nor lights.
C5_SameSceneSameBytes ==
    /\ \A i \in ImageIds, j \in ImageIds :
          (shot[i].taken /\ shot[j].taken /\ shot[i].cam = shot[j].cam) =>
              images[i].pixels = images[j].pixels
    /\ render.img # 0 => camera = startCam
    /\ spheres = NewSpheres
    /\ lights = NewLights

\* Both images hold a render from the same camera; one was a fresh buffer of
\* zeros, the other held a different picture, rendered from another camera.
C5_OverAnOlderPicture ==
    /\ shot[1].taken /\ shot[2].taken
    /\ shot[1].cam = shot[2].cam
    /\ shot[2].stale
    /\ ~shot[1].stale
    /\ images[1].pixels = images[2].pixels
    /\ \E k \in 1..Len(images[1].pixels) : images[1].pixels[k] \notin {0, U8MAX}

\* The shadow ray of a call of illuminate, and the point-to-light distance.
ShadowRay == RayUnit(RayCast(call.point, call.light.pos))

Distance == RayLength(RayCast(call.point, call.light.pos))

\* The intersections of sphere s with ray r: the roots that are >= 1e-10.
ValidRoots(s, r) ==
    LET oc   == Subtract(r.origin, s.center)
        dot  == Dot(Unit(r.direction), oc)
        disc == Sqr(dot) - (Sqr(Length(oc)) - Sqr(s.radius))
    IN  IF disc < 0 THEN { }
        ELSE { t \in { (-dot) - FSqrt(disc), (-dot) + FSqrt(disc) } : GeEpsilon(t) }

\* The spheres of the call that the shadow ray meets before the light.
Blockers ==
    { i \in 1..Len(call.spheres) :
        \E t \in ValidRoots(call.spheres[i], ShadowRay) : t < Distance }

\* C6: illuminate returns exactly 0 when some sphere of the list meets the
\* unit ray from the point towards the light at a t less than the distance to
\* the light; spheres met only at t >= distance do not occlude: the result is
\* then power * cosine / (4 pi distance^2).
C6_OccludedIsZero ==
    call.fn = "illuminate" =>
        /\ Blockers # { } => call.res = 0
        /\ Blockers = { } =>
              call.res = FDiv(FMul(call.light.power,
                                   FDiv(Dot(call.normal, ShadowRay.direction),
                                        Length(call.normal))),
                              FMul(FMul(F(4), PI), Sqr(Distance)))

\* The second sphere of the list lies between point and light, the first
\* beyond the light; the light would otherwise reach the point.
C6_SecondSphereOccludes ==
    /\ call.fn = "illuminate"
    /\ Len(call.spheres) = 2
    /\ Blockers = {2}
    /\ \E t \in ValidRoots(call.spheres[1], ShadowRay) : t >= Distance
    /\ Dot(call.normal, ShadowRay.direction) > 0
    /\ call.res = 0

\* The call of the example: light (0,0,0) of power 100, point (0,0,1), the
\* given normal, no sphere between point and light.
Example7(normal) ==
    /\ call.fn = "illuminate"
    /\ call.light = Light(Axis(0), F(100))
    /\ call.point = Axis(1)
    /\ call.normal = normal
    /\ Blockers = { }

\* C7, as stated: the example, with normal (0,0,1), gives a positive
\* illumination of about 7.9577.
C7_ExampleIsPositive ==
    Example7(Axis(1)) => (call.res > 0 /\ Abs(call.res - 796) <= 1)

\* C7, amended: the example gives about -7.9577, the normal (0,0,1) pointing
\* away from the light (cosine -1); with the normal (0,0,-1) it gives about
\* +7.9577.
C7_SignFollowsNormal ==
    /\ Example7(Axis(1)) => (call.res < 0 /\ Abs(call.res + 796) <= 1)
    /\ Example7(Axis(-1)) => (call.res > 0 /\ Abs(call.res - 796) <= 1)

\* The example has been computed, next to a sphere that does not occlude.
C7_ExampleComputed ==
    /\ Example7(Axis(1))
    /\ call.spheres # << >>
    /\ call.res = -796

\* C8: intersect gives none when the discriminant is negative; otherwise the
\* first of t1 = -dot - sqrt(disc), t2 = -dot + sqrt(disc) that is >= 1e-10,
\* none when neither is.  A value given is >= 1e-10; centre (0,0,5), radius 1,
\* origin (0,0,0), direction (0,0,1) gives 4; an origin strictly inside gives t2.
C8_FirstValidRoot ==
    call.fn = "intersect" =>
        LET s    == call.sphere
            oc   == Subtract(call.ray.origin, s.center)
            dot  == Dot(Unit(call.ray.direction), oc)
            disc == Sqr(dot) - (Sqr(Length(oc)) - Sqr(s.radius))
            t1   == (-dot) - FSqrt(disc)
            t2   == (-dot) + FSqrt(disc)
        IN  /\ disc < 0 => call.res = None
            /\ disc >= 0 =>
                  call.res = IF GeEpsilon(t1) THEN Some(t1)
                             ELSE IF GeEpsilon(t2) THEN Some(t2) ELSE None
            /\ call.res.some => (call.res.t >= 0 /\ GeEpsilon(call.res.t))
            /\ (s = Shape(Axis(5), F(1)) /\ call.ray = Ray(Axis(0), Axis(1))) =>
                  call.res = Some(F(4))
            /\ Length(oc) < s.radius => (t1 < 0 /\ call.res = Some(t2))

\* The ray starts on the sphere and goes through it: t1 is 0, t2 is given.
C8_FromTheSurface ==
    /\ call.fn = "intersect"
    /\ call.sphere = Shape(Axis(5), F(5))
    /\ call.ray = Ray(Axis(0), Axis(1))
    /\ call.res = Some(F(10))

Clamp01(c) == IF c < 0 THEN 0 ELSE IF c > F(1) THEN F(1) ELSE c

\* C9: write gives, for each channel, the channel clamped to [0, 1], times
\* 255, rounded to the nearest integer: 0 for a channel below 0, 255 for a
\* channel of 1 or more; and 255 as the fourth byte.
C9_ClampedBytes ==
    call.fn = "write" =>
        LET c == << call.color.red, call.color.green, call.color.blue >>
        IN  /\ Len(call.res) = 4
            /\ \A i \in 1..3 :
                  /\ call.res[i] = RoundDiv(U8MAX * Clamp01(c[i]), Scale)
                  /\ c[i] < 0 => call.res[i] = 0
                  /\ c[i] >= F(1) => call.res[i] = U8MAX
            /\ call.res[4] = U8MAX

\* A colour with a channel below 0, one above 1 and one between.
C9_OutOfRangeChannels ==
    /\ call.fn = "write"
    /\ call.color = RGB(-30, 250, 50)
    /\ call.res = << 0, 255, 128, 255 >>

\* The spheres a returned call's ray intersects.
Hits == { i \in 1..Len(spheres) : Intersect(spheres[i], ret.ray).some }

HitT(i) == Intersect(spheres[i], ret.ray).t

\* C10: a call of Scene::light shades the sphere of least t among those its
\* ray intersects, the earliest in the list among several of that t; and
\* gives the background exactly when the ray intersects no sphere.
C10_NearestEarliest ==
    ret.given =>
        /\ ret.chosen = 0 <=> Hits = { }
        /\ ret.chosen = 0 => ret.color = Background(ret.ray)
        /\ ret.chosen # 0 =>
              /\ ret.chosen \in Hits
              /\ \A j \in Hits : HitT(ret.chosen) <= HitT(j)
              /\ \A j \in Hits : HitT(j) = HitT(ret.chosen) => ret.chosen <= j
              /\ ret.recursed \/ ret.color =
                    Shade(spheres[ret.chosen].color,
                          Trace(spheres, lights, ret.ray).radiance)

\* Two different spheres are hit at the same least t; the first was shaded.
C10_TieGoesToTheFirst ==
    /\ ret.given
    /\ Len(spheres) = 2
    /\ Hits = {1, 2}
    /\ HitT(1) = HitT(2)
    /\ spheres[1].color # spheres[2].color
    /\ ret.chosen = 1
    /\ ret.color # Shade(spheres[2].color, Trace(spheres, lights, ret.ray).radiance)

====
